---- MODULE Spec2Model ----
(***************************************************************************)
(* Configuration resolution and persistence of claude-code-webui:          *)
(*   backend/utils/config-manager.ts  (ConfigManager)                      *)
(*   backend/handlers/config.ts       (the four HTTP handlers)             *)
(*   frontend/src/components/settings/ApiSettings.tsx (the settings form)  *)
(*                                                                         *)
(* Strings are sequences of symbols.  For an apiKey a symbol is one        *)
(* character, because trim(), length and substring() look at characters;   *)
(* a baseUrl or model, whose characters no code inspects, is one symbol.   *)
(* undefined is the one-symbol sequence Absent, which is no string.        *)
(***************************************************************************)
EXTENDS Naturals, Sequences, FiniteSets, TLC

VARIABLES
    dirExists,      \* ~/.claude-webui exists
    names,          \* directory entries: path -> inode (0: no such file)
    data,           \* inode -> content, a sequence of JSON tokens
    systemFile,     \* ~/.claude/settings.json, owned by another program
    saver,          \* the running saveUserConfig calls
    reader,         \* a running getUserConfig call
    effective,      \* the last getEffectiveConfig call and what it returned
    http,           \* the last request to handleSaveConfig and its response
    form,           \* the state of the ApiSettings form
    entered,        \* the credentials the user has typed into the form
    mode,           \* the permission bits of the directory and of its files
    call,           \* the last direct call of a ConfigManager method
    hook            \* the state of useConversationList and its fetches in flight

vars ==
    <<dirExists, names, data, systemFile, saver, reader, effective, http, form, entered,
      mode, call, hook>>

-----------------------------------------------------------------------------
(* JavaScript values *)

Absent == <<"undefined">>
EmptyString == <<>>

\* x is truthy: neither undefined nor ""
Truthy(x) == x # Absent /\ x # EmptyString

\* a || b
Or(a, b) == IF Truthy(a) THEN a ELSE b

IsWhitespace(ch) == ch = " "

RECURSIVE TrimStart(_)
TrimStart(s) ==
    IF s # <<>> /\ IsWhitespace(Head(s)) THEN TrimStart(Tail(s)) ELSE s

RECURSIVE TrimEnd(_)
TrimEnd(s) ==
    IF s # <<>> /\ IsWhitespace(s[Len(s)]) THEN TrimEnd(SubSeq(s, 1, Len(s) - 1)) ELSE s

\* String.prototype.trim
Trim(s) == TrimEnd(TrimStart(s))

-----------------------------------------------------------------------------
(* Built-in defaults *)

DEFAULT_CONFIG ==
    [baseUrl |-> <<"https://api.anthropic.com">>,
     model   |-> <<"claude-sonnet-4-20250514">>]

-----------------------------------------------------------------------------
(* JSON documents: a file's content is a sequence of tokens, one for each    *)
(* brace and one for each "key": value member.                               *)

Tok(k, v) == [k |-> k, v |-> v]
OpenBrace == Tok("{", <<>>)
CloseBrace == Tok("}", <<>>)
NullLiteral == Tok("null", <<>>)
MemberKeys == {"useSystemDefaults", "apiKey", "baseUrl", "model"}

\* A member that is written as null when the property is undefined
MemberOrNull(k, v) == <<Tok(k, IF v = Absent THEN <<"null">> ELSE v)>>

\* An optional member: JSON.stringify leaves out a property that is undefined
Member(k, v) == IF v = Absent THEN <<>> ELSE <<Tok(k, v)>>

\* JSON.stringify(config, null, 2), the members in the order the object
\* literal of handleSaveConfig lists them
JSONstringify(config) ==
    <<OpenBrace>>
    \o <<Tok("useSystemDefaults", IF config.useSystemDefaults THEN <<"true">> ELSE <<"false">>)>>
    \o Member("apiKey", config.apiKey)
    \o Member("baseUrl", config.baseUrl)
    \o Member("model", config.model)
    \o <<CloseBrace>>

\* The value JSON.parse gives member k: that of its last occurrence
RECURSIVE LastMember(_, _)
LastMember(s, k) ==
    IF s = <<>> THEN Absent
    ELSE IF s[Len(s)].k = k THEN s[Len(s)].v
    ELSE LastMember(SubSeq(s, 1, Len(s) - 1), k)

\* A parsed user config; isNull is the JSON document null.  A member
\* useSystemDefaults that is missing reads as undefined, which is falsy.
NullValue ==
    [isNull |-> TRUE, useSystemDefaults |-> FALSE,
     apiKey |-> Absent, baseUrl |-> Absent, model |-> Absent]

UserConfig(usd, apiKey, baseUrl, model) ==
    [isNull |-> FALSE, useSystemDefaults |-> usd,
     apiKey |-> apiKey, baseUrl |-> baseUrl, model |-> model]

WellFormed(s) ==
    \/ s = <<NullLiteral>>
    \/ /\ Len(s) >= 2
       /\ s[1] = OpenBrace
       /\ s[Len(s)] = CloseBrace
       /\ \A i \in 2..(Len(s) - 1) : s[i].k \in MemberKeys

\* JSON.parse: threw is a SyntaxError
JSONparse(s) ==
    IF ~WellFormed(s) THEN [threw |-> TRUE, value |-> NullValue]
    ELSE IF s = <<NullLiteral>> THEN [threw |-> FALSE, value |-> NullValue]
    ELSE [threw |-> FALSE,
          value |-> UserConfig(LastMember(s, "useSystemDefaults") = <<"true">>,
                               LastMember(s, "apiKey"),
                               LastMember(s, "baseUrl"),
                               LastMember(s, "model"))]

-----------------------------------------------------------------------------
(* ~/.claude/settings.json.  kind is what readFile and JSON.parse make of    *)
(* it: "missing" (ENOENT), "malformed" (SyntaxError), "null" (the document   *)
(* null) or "object"; hasEnv and env are the object's env member.            *)

EnvKeys ==
    {"ANTHROPIC_AUTH_TOKEN", "ANTHROPIC_API_KEY", "ANTHROPIC_BASE_URL",
     "ANTHROPIC_MODEL", "ANTHROPIC_DEFAULT_SONNET_MODEL"}

NoEnv == [k \in EnvKeys |-> Absent]

SettingsFile(kind, hasEnv, env) == [kind |-> kind, hasEnv |-> hasEnv, env |-> env]

\* {}: every field undefined
EmptySystemConfig == [apiKey |-> Absent, baseUrl |-> Absent, model |-> Absent]

\* A try block that looks at ANTHROPIC_API_KEY first
getSystemConfigTryKeyFirst(file) ==
    IF file.kind # "object" THEN [threw |-> TRUE, value |-> EmptySystemConfig]
    ELSE LET env == IF file.hasEnv THEN file.env ELSE NoEnv
         IN [threw |-> FALSE,
             value |-> [apiKey  |-> Or(env["ANTHROPIC_API_KEY"], env["ANTHROPIC_AUTH_TOKEN"]),
                        baseUrl |-> env["ANTHROPIC_BASE_URL"],
                        model   |-> Or(env["ANTHROPIC_MODEL"], env["ANTHROPIC_DEFAULT_SONNET_MODEL"])]]

\* The try block of getSystemConfig: readFile, JSON.parse, settings.env || {}
\* and the object literal.  Reading .env of null is a TypeError.
getSystemConfigTry(file) ==
    IF file.kind # "object" THEN [threw |-> TRUE, value |-> EmptySystemConfig]
    ELSE LET env == IF file.hasEnv THEN file.env ELSE NoEnv
         IN [threw |-> FALSE,
             value |-> [apiKey  |-> Or(env["ANTHROPIC_AUTH_TOKEN"], env["ANTHROPIC_API_KEY"]),
                        baseUrl |-> env["ANTHROPIC_BASE_URL"],
                        model   |-> Or(env["ANTHROPIC_MODEL"], env["ANTHROPIC_DEFAULT_SONNET_MODEL"])]]

\* A getSystemConfig with no catch clause
getSystemConfigUncaught(file) == getSystemConfigTry(file)

\* getSystemConfig: both arms of the catch clause return {}
getSystemConfig(file) ==
    LET tried == getSystemConfigTry(file)
    IN IF tried.threw THEN [threw |-> FALSE, value |-> EmptySystemConfig]
       ELSE tried

-----------------------------------------------------------------------------
(* The user config file *)

userConfigPath == "config.json"
\* A temp path that is the canonical path itself
tempPathIsTarget == "config.json"
tempPath == "config.json.tmp"
Paths == {userConfigPath, tempPath}

\* The try block of getUserConfig on a file that is absent (ENOENT) or holds
\* content
getUserConfigTry(exists, content) ==
    IF ~exists THEN [threw |-> TRUE, value |-> NullValue]
    ELSE JSONparse(content)

\* A catch clause that recovers from ENOENT alone and rethrows the rest
getUserConfigRethrowing(exists, content) ==
    IF ~exists THEN [threw |-> FALSE, value |-> NullValue]
    ELSE JSONparse(content)

\* A catch clause that returns a config of defaults
getUserConfigOrDefaults(exists, content) ==
    LET tried == getUserConfigTry(exists, content)
    IN IF tried.threw
       THEN [threw |-> FALSE, value |-> UserConfig(TRUE, Absent, Absent, Absent)]
       ELSE tried

\* getUserConfig: both arms of the catch clause return null
getUserConfigOf(exists, content) ==
    LET tried == getUserConfigTry(exists, content)
    IN IF tried.threw THEN [threw |-> FALSE, value |-> NullValue]
       ELSE tried

-----------------------------------------------------------------------------
(* getEffectiveConfig *)

\* o.f; a TypeError when o is null
Prop(o, f) == [threw |-> o.isNull, v |-> o[f]]

\* o?.f
OptProp(o, f) == IF o.isNull THEN [threw |-> FALSE, v |-> FALSE] ELSE Prop(o, f)

EffectiveConfig(threw, apiKey, baseUrl, model) ==
    [threw |-> threw, apiKey |-> apiKey, baseUrl |-> baseUrl, model |-> model]

\* The two returns that use the system config (lines 136-140 and 153-157)
SystemFallback(systemConfig) ==
    EffectiveConfig(FALSE,
                    Or(systemConfig.apiKey, EmptyString),
                    Or(systemConfig.baseUrl, DEFAULT_CONFIG.baseUrl),
                    Or(systemConfig.model, DEFAULT_CONFIG.model))

\* A custom branch that falls back to the system's baseUrl and model
CustomConfigThreeTiers(userConfig, systemConfig) ==
    EffectiveConfig(Prop(userConfig, "apiKey").threw,
                    Or(Or(userConfig.apiKey, systemConfig.apiKey), EmptyString),
                    Or(Or(userConfig.baseUrl, systemConfig.baseUrl), DEFAULT_CONFIG.baseUrl),
                    Or(Or(userConfig.model, systemConfig.model), DEFAULT_CONFIG.model))

\* The return that uses the user's own config (lines 145-149)
CustomConfig(userConfig, systemConfig) ==
    EffectiveConfig(Prop(userConfig, "apiKey").threw,
                    Or(Or(userConfig.apiKey, systemConfig.apiKey), EmptyString),
                    Or(userConfig.baseUrl, DEFAULT_CONFIG.baseUrl),
                    Or(userConfig.model, DEFAULT_CONFIG.model))

\* A resolution that uses any user config there is, whatever its flag
ResolveIgnoringFlag(userConfig, systemConfig) ==
    IF ~userConfig.isNull THEN CustomConfig(userConfig, systemConfig)
    ELSE SystemFallback(systemConfig)

\* The body of getEffectiveConfig after its two reads
Resolve(userConfig, systemConfig) ==
    LET usd == OptProp(userConfig, "useSystemDefaults")
    IN IF usd.threw THEN EffectiveConfig(TRUE, Absent, Absent, Absent)
       ELSE IF usd.v THEN SystemFallback(systemConfig)
       ELSE IF ~userConfig.isNull /\ ~userConfig.useSystemDefaults
            THEN CustomConfig(userConfig, systemConfig)
       ELSE SystemFallback(systemConfig)

\* getEffectiveConfig on the two files
getEffectiveConfigOf(exists, content, file) ==
    LET u == getUserConfigOf(exists, content)
        s == getSystemConfig(file)
    IN IF u.threw \/ s.threw THEN EffectiveConfig(TRUE, Absent, Absent, Absent)
       ELSE Resolve(u.value, s.value)

-----------------------------------------------------------------------------
(* The values the model lets files, requests and the form hold *)

ShortKey == <<"k", "e", "y">>
LongKey == <<"s", "k", "-", "a", "n", "t", "-", "1", "2", "3", "4", "5">>
SysToken == <<"s", "y", "s", "-", "t", "o", "k", "e", "n", "-", "9", "8", "7">>
SysKey == <<"s", "y", "s", "-", "k", "e", "y">>
Blank1 == <<" ">>
Blank2 == <<" ", " ">>
CustomUrl == <<"https://custom">>
SysUrl == <<"https://system">>
CustomModel == <<"custom-model">>
SysModel == <<"system-model">>
SysSonnet == <<"system-sonnet">>

ApiKeyValues == {Absent, EmptyString, Blank1, Blank2, ShortKey, LongKey}
BaseUrlValues == {Absent, EmptyString, CustomUrl}
ModelValues == {Absent, EmptyString, CustomModel}

UserConfigs ==
    {UserConfig(u, k, b, m) :
        u \in BOOLEAN, k \in ApiKeyValues, b \in BaseUrlValues, m \in ModelValues}

\* Contents of config.json that are no output of saveUserConfig: an empty
\* file, a truncated document, the document null, an object without
\* useSystemDefaults
OddContents ==
    {<<>>,
     <<OpenBrace, Tok("useSystemDefaults", <<"false">>)>>,
     <<NullLiteral>>,
     <<OpenBrace, Tok("apiKey", ShortKey), CloseBrace>>}

UserFileContents == {JSONstringify(c) : c \in UserConfigs} \cup OddContents

Envs ==
    {[k \in EnvKeys |->
        CASE k = "ANTHROPIC_AUTH_TOKEN" -> t
          [] k = "ANTHROPIC_API_KEY" -> a
          [] k = "ANTHROPIC_BASE_URL" -> b
          [] k = "ANTHROPIC_MODEL" -> m
          [] OTHER -> d] :
        t \in {Absent, EmptyString, SysToken}, a \in {Absent, SysKey},
        b \in {Absent, EmptyString, SysUrl}, m \in {Absent, EmptyString, SysModel},
        d \in {Absent, SysSonnet}}

SystemFiles ==
    {SettingsFile(k, FALSE, NoEnv) : k \in {"missing", "malformed", "null", "object"}}
    \cup {SettingsFile("object", TRUE, e) : e \in Envs}

-----------------------------------------------------------------------------
(* The file system under ~/.claude-webui *)

MaxInodes == 3
Inodes == 1..MaxInodes

FS == [dirExists |-> dirExists, names |-> names, data |-> data]

NoFiles == [p \in Paths |-> 0]
NoData == [i \in Inodes |-> <<>>]

\* The canonical file as readFile(userConfigPath) finds it
Exists(fs, path) == fs.dirExists /\ fs.names[path] # 0
Content(fs, path) == IF Exists(fs, path) THEN fs.data[fs.names[path]] ELSE <<>>

\* The file systems that hold the given canonical file and no temp file
FileSystems(contents) ==
    {[dirExists |-> FALSE, names |-> NoFiles, data |-> NoData],
     [dirExists |-> TRUE, names |-> NoFiles, data |-> NoData]}
    \cup {[dirExists |-> TRUE,
           names |-> [p \in Paths |-> IF p = userConfigPath THEN 1 ELSE 0],
           data |-> [i \in Inodes |-> IF i = 1 THEN c ELSE <<>>]] : c \in contents}

-----------------------------------------------------------------------------
(* Calls in progress *)

Savers == {"A", "B"}

IdleSaver ==
    [pc |-> "idle", config |-> NullValue, fd |-> 0, off |-> 0,
     beforeExists |-> FALSE, before |-> <<>>]

\* openedAt and endedAt record where the saves stood when the read opened the
\* file and when it returned
IdleReader ==
    [pc |-> "idle", fd |-> 0, buf |-> <<>>, exists |-> FALSE, result |-> NullValue,
     openedAt |-> [p \in Savers |-> "idle"], endedAt |-> [p \in Savers |-> "idle"]]

NoCall ==
    [called |-> FALSE, exists |-> FALSE, content |-> <<>>,
     file |-> SettingsFile("missing", FALSE, NoEnv),
     result |-> EffectiveConfig(FALSE, Absent, Absent, Absent)]

NoRequest ==
    [handler |-> "none", status |-> 0, body |-> UserConfig(FALSE, Absent, Absent, Absent),
     apiKey |-> Absent, saveInvoked |-> FALSE, response |-> [error |-> Absent],
     repeat |-> FALSE]

InitialForm ==
    [useSystemDefaults |-> TRUE, apiKey |-> EmptyString,
     baseUrl |-> EmptyString, model |-> EmptyString, testResult |-> "none"]

\* The modes fs.mkdir and fs.writeFile are given (lines 46 and 84)
Mode0700 == 448
Mode0600 == 384

\* The modes of a directory and of files that saveUserConfig created
CreatedModes(fs) ==
    [dir |-> IF fs.dirExists THEN Mode0700 ELSE 0,
     file |-> [p \in Paths |-> IF Exists(fs, p) THEN Mode0600 ELSE 0]]

NoMethodCall == [method |-> "none", input |-> Absent, output |-> Absent]

\* The projects whose conversations the model lists
ProjectNames == {"p1", "p2"}

\* useConversationList(null) after its first render: the three useState
\* values, the effect having set conversations to [] and started no fetch.
\* inflight counts the fetches that have not settled, started those begun,
\* failed tells whether one was rejected.
MountedHook ==
    [encodedName |-> "null", conversations |-> <<>>, loading |-> FALSE, error |-> "null",
     inflight |-> [n \in ProjectNames |-> 0], started |-> 0, failed |-> FALSE]

Quiet ==
    /\ saver = [p \in Savers |-> IdleSaver]
    /\ reader = IdleReader
    /\ effective = NoCall
    /\ http = NoRequest
    /\ form = InitialForm
    /\ entered = {}
    /\ mode = CreatedModes(FS)
    /\ call = NoMethodCall
    /\ hook = MountedHook

-----------------------------------------------------------------------------
(* Resolution: getEffectiveConfig on every pair of files *)

InitResolve ==
    /\ \E fs \in FileSystems(UserFileContents) :
          /\ dirExists = fs.dirExists
          /\ names = fs.names
          /\ data = fs.data
    /\ systemFile \in SystemFiles
    /\ Quiet

\* A getEffectiveConfig that keeps the first result it computed
GetEffectiveConfigCached ==
    /\ effective' =
          [called |-> TRUE,
           exists |-> Exists(FS, userConfigPath),
           content |-> Content(FS, userConfigPath),
           file |-> systemFile,
           result |-> IF effective.called THEN effective.result
                      ELSE getEffectiveConfigOf(Exists(FS, userConfigPath),
                                                Content(FS, userConfigPath), systemFile)]
    /\ UNCHANGED <<hook, mode, call, dirExists, names, data, systemFile, saver, reader, http, form, entered>>

\* getEffectiveConfig, its two reads taken together
GetEffectiveConfig ==
    /\ effective' =
          [called |-> TRUE,
           exists |-> Exists(FS, userConfigPath),
           content |-> Content(FS, userConfigPath),
           file |-> systemFile,
           result |-> getEffectiveConfigOf(Exists(FS, userConfigPath),
                                           Content(FS, userConfigPath), systemFile)]
    /\ UNCHANGED <<hook, mode, call, dirExists, names, data, systemFile, saver, reader, http, form, entered>>

NextResolve == GetEffectiveConfig

SpecResolve == InitResolve /\ [][NextResolve]_vars

\* getUserConfig called by itself.  fs.readFile fails with ENOENT for no
\* file and with another code (EACCES, EISDIR, EIO) for one it cannot read:
\* the try block is left in both cases.
GetUserConfig ==
    /\ \E readable \in BOOLEAN :
          call' = [method |-> "getUserConfig",
                   input |-> [exists |-> Exists(FS, userConfigPath),
                              readable |-> readable,
                              content |-> Content(FS, userConfigPath)],
                   output |-> getUserConfigOf(Exists(FS, userConfigPath) /\ readable,
                                              Content(FS, userConfigPath))]
    /\ UNCHANGED <<hook, dirExists, names, data, mode, systemFile, saver, reader, effective,
                   http, form, entered>>

\* getSystemConfig called by itself
GetSystemConfig ==
    /\ call' = [method |-> "getSystemConfig", input |-> systemFile,
                output |-> getSystemConfig(systemFile)]
    /\ UNCHANGED <<hook, dirExists, names, data, mode, systemFile, saver, reader, effective,
                   http, form, entered>>

NextRead ==
    \/ GetUserConfig
    \/ GetSystemConfig

SpecRead == InitResolve /\ [][NextRead]_vars

-----------------------------------------------------------------------------
(* File system calls.  An open file is an inode: a rename moves a name to   *)
(* another inode and leaves the calls that hold the old one reading it.     *)

OpenFiles == ({saver[p].fd : p \in Savers} \cup {reader.fd}) \ {0}

\* The files that stay open when call p, or the reader, closes its own
OpenFilesBut(p) == ({saver[q].fd : q \in Savers \ {p}} \cup {reader.fd}) \ {0}
OpenFilesOfSavers == {saver[p].fd : p \in Savers} \ {0}

Referenced(fs, fds, i) == i \in fds \/ \E p \in Paths : fs.names[p] = i

\* The data of an inode that has neither a name nor an open file is gone
Sweep(fs, fds) ==
    [fs EXCEPT !.data = [i \in Inodes |->
                            IF Referenced(fs, fds, i) THEN fs.data[i] ELSE <<>>]]

\* fs.mkdir(configDir, {recursive: true}): no error when it exists
Mkdir(fs) == [fs EXCEPT !.dirExists = TRUE]

FreeInode(fs, fds) ==
    CHOOSE i \in Inodes :
        /\ ~Referenced(fs, fds, i)
        /\ \A j \in Inodes : j < i => Referenced(fs, fds, j)

\* The inode open(path, "w") returns: that of the file there is, or a new one
OpenedInode(fs, fds, path) ==
    IF fs.names[path] # 0 THEN fs.names[path] ELSE FreeInode(fs, fds)

\* open(path, "w"): O_CREAT | O_TRUNC
OpenTrunc(fs, fds, path) ==
    LET i == OpenedInode(fs, fds, path)
    IN [fs EXCEPT !.names[path] = i, !.data[i] = <<>>]

ZeroByte == Tok("\\0", <<>>)

\* write(fd, chunk) at the file offset off of the descriptor: what lies past
\* the end of the file after another open truncated it is filled with zeroes
WriteAt(content, off, chunk) ==
    LET end == off + Len(chunk)
        size == IF Len(content) > end THEN Len(content) ELSE end
    IN [i \in 1..size |->
           IF i > off /\ i <= end THEN chunk[i - off]
           ELSE IF i <= Len(content) THEN content[i]
           ELSE ZeroByte]

\* A link(from, to) in place of the rename: from stays
RenameKeepingSource(fs, from, to) == [fs EXCEPT !.names[to] = fs.names[from]]

\* rename(from, to) of a file that exists: atomic, to now names from's inode
Rename(fs, from, to) ==
    [fs EXCEPT !.names = [p \in Paths |->
                             IF p = to THEN fs.names[from]
                             ELSE IF p = from THEN 0
                             ELSE fs.names[p]]]

SetFS(fs) ==
    /\ dirExists' = fs.dirExists
    /\ names' = fs.names
    /\ data' = fs.data

\* fs.mkdir(configDir, {recursive: true, mode: 0o700}): the mode is that of
\* a directory it creates; one that exists keeps its own
MkdirMode(fs, md) == IF fs.dirExists THEN md ELSE [md EXCEPT !.dir = Mode0700]

\* open(path, "w", 0o600): the mode is that of a file it creates; one that
\* exists keeps its own
OpenMode(fs, md, path) ==
    IF fs.names[path] # 0 THEN md ELSE [md EXCEPT !.file[path] = Mode0600]

\* rename(from, to): the mode moves with the inode
RenameMode(md, from, to) ==
    [md EXCEPT !.file = [p \in Paths |->
                            IF p = to THEN md.file[from]
                            ELSE IF p = from THEN 0
                            ELSE md.file[p]]]

-----------------------------------------------------------------------------
(* saveUserConfig(config), one step for each file system call it awaits *)

SaveConfigs ==
    {UserConfig(FALSE, LongKey, CustomUrl, CustomModel),
     UserConfig(FALSE, ShortKey, Absent, Absent),
     UserConfig(TRUE, Absent, Absent, Absent)}

\* Where a call that has started and not yet returned can be waiting
Running == {"mkdir", "open", "write", "rename"}

\* The call starts: ensureConfigDir issues its mkdir
SaveBegin(p, config) ==
    /\ saver[p].pc = "idle"
    /\ saver' = [saver EXCEPT ![p] =
                    [pc |-> "mkdir", config |-> config, fd |-> 0, off |-> 0,
                     beforeExists |-> Exists(FS, userConfigPath),
                     before |-> Content(FS, userConfigPath)]]
    /\ UNCHANGED <<hook, mode, call, dirExists, names, data, systemFile, reader, effective, http, form, entered>>

\* ensureConfigDir: mkdir completes
EnsureConfigDir(p) ==
    /\ saver[p].pc = "mkdir"
    /\ SetFS(Mkdir(FS))
    /\ saver' = [saver EXCEPT ![p].pc = "open"]
    /\ mode' = MkdirMode(FS, mode)
    /\ UNCHANGED <<hook, call, systemFile, reader, effective, http, form, entered>>

\* A save that writes the canonical file in place
OpenTarget(p) ==
    /\ saver[p].pc = "open"
    /\ dirExists
    /\ SetFS(OpenTrunc(FS, OpenFiles, userConfigPath))
    /\ saver' = [saver EXCEPT ![p].pc = "write",
                              ![p].fd = OpenedInode(FS, OpenFiles, userConfigPath),
                              ![p].off = 0]
    /\ mode' = OpenMode(FS, mode, userConfigPath)
    /\ UNCHANGED <<hook, call, systemFile, reader, effective, http, form, entered>>

\* fs.writeFile(tempPath, ...): the open
OpenTemp(p) ==
    /\ saver[p].pc = "open"
    /\ dirExists
    /\ SetFS(OpenTrunc(FS, OpenFiles, tempPath))
    /\ saver' = [saver EXCEPT ![p].pc = "write",
                              ![p].fd = OpenedInode(FS, OpenFiles, tempPath),
                              ![p].off = 0]
    /\ mode' = OpenMode(FS, mode, tempPath)
    /\ UNCHANGED <<hook, call, systemFile, reader, effective, http, form, entered>>

\* fs.writeFile(tempPath, ...): one write of its loop, which may write less
\* than what is left; after the last one the file is closed
WriteTemp(p) ==
    /\ saver[p].pc = "write"
    /\ LET buffer == JSONstringify(saver[p].config)
           off == saver[p].off
       IN \E n \in 1..(Len(buffer) - off) :
             LET last == off + n = Len(buffer)
                 fds == IF last THEN OpenFilesBut(p) ELSE OpenFiles
                 written == [FS EXCEPT !.data[saver[p].fd] =
                                WriteAt(data[saver[p].fd], off, SubSeq(buffer, off + 1, off + n))]
             IN /\ SetFS(Sweep(written, fds))
                /\ saver' = [saver EXCEPT ![p].off = off + n,
                                          ![p].pc = IF last THEN "rename" ELSE "write",
                                          ![p].fd = IF last THEN 0 ELSE saver[p].fd]
    /\ UNCHANGED <<hook, mode, call, systemFile, reader, effective, http, form, entered>>

\* fs.rename(tempPath, userConfigPath)
RenameTemp(p) ==
    /\ saver[p].pc = "rename"
    /\ Exists(FS, tempPath)
    /\ SetFS(Sweep(Rename(FS, tempPath, userConfigPath), OpenFiles))
    /\ saver' = [saver EXCEPT ![p].pc = "done"]
    /\ mode' = RenameMode(mode, tempPath, userConfigPath)
    /\ UNCHANGED <<hook, call, systemFile, reader, effective, http, form, entered>>

\* fs.rename(tempPath, userConfigPath) when another call has renamed the
\* temp file away: ENOENT, caught and rethrown
RenameMissing(p) ==
    /\ saver[p].pc = "rename"
    /\ ~Exists(FS, tempPath)
    /\ saver' = [saver EXCEPT ![p].pc = "failed"]
    /\ UNCHANGED <<hook, mode, call, dirExists, names, data, systemFile, reader, effective, http, form, entered>>

\* A catch clause that logs the error and does not rethrow it
SaveFailsSilently(p) ==
    /\ saver[p].pc \in Running
    /\ SetFS(Sweep(FS, OpenFilesBut(p)))
    /\ saver' = [saver EXCEPT ![p].pc = "done", ![p].fd = 0]
    /\ UNCHANGED <<hook, mode, call, systemFile, reader, effective, http, form, entered>>

\* The file system call the save is waiting for fails (EACCES, ENOSPC, EIO):
\* the call has no effect, the catch clause logs and rethrows
SaveFails(p) ==
    /\ saver[p].pc \in Running
    /\ SetFS(Sweep(FS, OpenFilesBut(p)))
    /\ saver' = [saver EXCEPT ![p].pc = "failed", ![p].fd = 0]
    /\ UNCHANGED <<hook, mode, call, systemFile, reader, effective, http, form, entered>>

-----------------------------------------------------------------------------
(* getUserConfig, one step for each file system call of its readFile *)

ReadBegin ==
    /\ reader.pc = "idle"
    /\ reader' = [reader EXCEPT !.pc = "open"]
    /\ UNCHANGED <<hook, mode, call, dirExists, names, data, systemFile, saver, effective, http, form, entered>>

\* The return value of getUserConfig for what readFile gave it
ReadOpen ==
    /\ reader.pc = "open"
    /\ IF Exists(FS, userConfigPath)
       THEN reader' = [reader EXCEPT !.pc = "read", !.fd = names[userConfigPath],
                                     !.buf = <<>>, !.exists = TRUE,
                                     !.openedAt = [p \in Savers |-> saver[p].pc]]
       ELSE reader' = [reader EXCEPT !.pc = "done", !.exists = FALSE,
                                     !.result = getUserConfigOf(FALSE, <<>>).value,
                                     !.openedAt = [p \in Savers |-> saver[p].pc],
                                     !.endedAt = [p \in Savers |-> saver[p].pc]]
    /\ UNCHANGED <<hook, mode, call, dirExists, names, data, systemFile, saver, effective, http, form, entered>>

\* One read of readFile's loop, which may return less than what is left
ReadChunk ==
    /\ reader.pc = "read"
    /\ Len(reader.buf) < Len(data[reader.fd])
    /\ \E n \in 1..(Len(data[reader.fd]) - Len(reader.buf)) :
          reader' = [reader EXCEPT !.buf =
                        reader.buf \o SubSeq(data[reader.fd], Len(reader.buf) + 1,
                                             Len(reader.buf) + n)]
    /\ UNCHANGED <<hook, mode, call, dirExists, names, data, systemFile, saver, effective, http, form, entered>>

\* The read that finds the end of the file: readFile returns what it has
\* read, the file is closed, JSON.parse runs
ReadEnd ==
    /\ reader.pc = "read"
    /\ Len(reader.buf) >= Len(data[reader.fd])
    /\ reader' = [reader EXCEPT !.pc = "done", !.fd = 0,
                                !.result = getUserConfigOf(TRUE, reader.buf).value,
                                !.endedAt = [p \in Savers |-> saver[p].pc]]
    /\ SetFS(Sweep(FS, OpenFilesOfSavers))
    /\ UNCHANGED <<hook, mode, call, systemFile, saver, effective, http, form, entered>>

\* The process dies while a save is under way: its calls never continue and
\* its open files are closed
Crash ==
    /\ \E p \in Savers : saver[p].pc \in Running
    /\ saver' = [p \in Savers |->
                    IF saver[p].pc \in Running
                    THEN [saver[p] EXCEPT !.pc = "crashed", !.fd = 0]
                    ELSE saver[p]]
    /\ reader' = IF reader.pc \in {"open", "read"}
                 THEN [reader EXCEPT !.pc = "crashed", !.fd = 0]
                 ELSE reader
    /\ SetFS(Sweep(FS, {}))
    /\ UNCHANGED <<hook, mode, call, systemFile, effective, http, form, entered>>

-----------------------------------------------------------------------------
(* One save, a concurrent read, file system errors and a crash *)

OldKey == <<"o", "l", "d">>
OldConfig == UserConfig(FALSE, OldKey, CustomUrl, Absent)

\* What an earlier save that crashed left in the temp file
OrphanContent == <<OpenBrace, Tok("useSystemDefaults", <<"false">>), Tok("apiKey", OldKey)>>

\* The same file systems, and each one that has the directory with an
\* orphaned temp file in it
WithOrphan(fss) ==
    fss \cup {[fs EXCEPT !.names[tempPath] = 2, !.data[2] = OrphanContent] :
                 fs \in {f \in fss : f.dirExists}}

TheSystemFile ==
    SettingsFile("object", TRUE,
                 [NoEnv EXCEPT !["ANTHROPIC_API_KEY"] = SysKey,
                               !["ANTHROPIC_BASE_URL"] = SysUrl])

InitSave ==
    /\ \E fs \in WithOrphan(FileSystems({JSONstringify(OldConfig), <<>>})) :
          /\ dirExists = fs.dirExists
          /\ names = fs.names
          /\ data = fs.data
    /\ systemFile = TheSystemFile
    /\ Quiet

NextSave ==
    \/ \E config \in SaveConfigs : SaveBegin("A", config)
    \/ EnsureConfigDir("A")
    \/ OpenTemp("A")
    \/ WriteTemp("A")
    \/ RenameTemp("A")
    \/ SaveFails("A")
    \/ ReadBegin
    \/ ReadOpen
    \/ ReadChunk
    \/ ReadEnd
    \/ Crash

SpecSave == InitSave /\ [][NextSave]_vars

\* The modes a directory and files can have that something else made:
\* 0700 or 0755 for the directory, 0600 or 0644 for a file
FoundModes(fs) ==
    {[dir |-> d, file |-> f] :
        d \in (IF fs.dirExists THEN {Mode0700, 493} ELSE {0}),
        f \in {g \in [Paths -> {0, Mode0600, 420}] :
                  \A p \in Paths : g[p] = 0 <=> ~Exists(fs, p)}}

\* A save into a directory, over a config.json and over a temp file of any
\* of these modes
InitPerms ==
    /\ \E fs \in WithOrphan(FileSystems({JSONstringify(OldConfig)})) :
          /\ dirExists = fs.dirExists
          /\ names = fs.names
          /\ data = fs.data
    /\ mode \in FoundModes(FS)
    /\ systemFile = TheSystemFile
    /\ saver = [p \in Savers |-> IdleSaver]
    /\ reader = IdleReader
    /\ effective = NoCall
    /\ http = NoRequest
    /\ form = InitialForm
    /\ entered = {}
    /\ call = NoMethodCall
    /\ hook = MountedHook

SpecPerms == InitPerms /\ [][NextSave]_vars

-----------------------------------------------------------------------------
(* Two concurrent saves of different configs, and a concurrent read *)

InitTwoSaves ==
    /\ \E fs \in FileSystems({JSONstringify(OldConfig)}) :
          /\ dirExists = fs.dirExists
          /\ names = fs.names
          /\ data = fs.data
    /\ systemFile = TheSystemFile
    /\ Quiet

NextTwoSaves ==
    \/ \E p \in Savers, config \in SaveConfigs :
          /\ \A q \in Savers \ {p} : saver[q].pc # "idle" => saver[q].config # config
          /\ SaveBegin(p, config)
    \/ \E p \in Savers : EnsureConfigDir(p)
    \/ \E p \in Savers : OpenTemp(p)
    \/ \E p \in Savers : WriteTemp(p)
    \/ \E p \in Savers : RenameTemp(p)
    \/ \E p \in Savers : RenameMissing(p)
    \/ ReadBegin
    \/ ReadOpen
    \/ ReadChunk
    \/ ReadEnd

SpecTwoSaves == InitTwoSaves /\ [][NextTwoSaves]_vars

-----------------------------------------------------------------------------
(* The HTTP handlers *)

Ellipsis == <<".", ".", ".">>
Placeholder == <<"*", "*", "*">>

\* A mask that shows a key of 10 characters
maskApiKeyBelowTen(apiKey) ==
    IF ~Truthy(apiKey) THEN Absent
    ELSE IF Len(apiKey) < 10 THEN Placeholder
    ELSE SubSeq(apiKey, 1, 7) \o Ellipsis \o SubSeq(apiKey, Len(apiKey) - 2, Len(apiKey))

\* A mask that shows the last four characters
maskApiKeyLastFour(apiKey) ==
    IF ~Truthy(apiKey) THEN Absent
    ELSE IF Len(apiKey) <= 10 THEN Placeholder
    ELSE SubSeq(apiKey, 1, 7) \o Ellipsis \o SubSeq(apiKey, Len(apiKey) - 3, Len(apiKey))

\* maskApiKey
maskApiKey(apiKey) ==
    IF ~Truthy(apiKey) THEN Absent
    ELSE IF Len(apiKey) <= 10 THEN Placeholder
    ELSE SubSeq(apiKey, 1, 7) \o Ellipsis \o SubSeq(apiKey, Len(apiKey) - 2, Len(apiKey))

\* The response body of handleGetConfig and handleSaveConfig
UserConfigResponse(usd, apiKey, baseUrl, model) ==
    [useSystemDefaults |-> usd, apiKey |-> apiKey, baseUrl |-> baseUrl, model |-> model]

\* A handleGetConfig that answers with the credential itself
handleGetConfigUnmasked(fs, file) ==
    LET userConfig == getUserConfigOf(Exists(fs, userConfigPath), Content(fs, userConfigPath)).value
        systemConfig == getSystemConfig(file).value
    IN IF userConfig.isNull
       THEN UserConfigResponse(TRUE, systemConfig.apiKey,
                               systemConfig.baseUrl, systemConfig.model)
       ELSE UserConfigResponse(userConfig.useSystemDefaults, userConfig.apiKey,
                               userConfig.baseUrl, userConfig.model)

\* handleGetConfig: the response for what the two files hold
handleGetConfig(fs, file) ==
    LET userConfig == getUserConfigOf(Exists(fs, userConfigPath), Content(fs, userConfigPath)).value
        systemConfig == getSystemConfig(file).value
    IN IF userConfig.isNull
       THEN UserConfigResponse(TRUE, maskApiKey(systemConfig.apiKey),
                               systemConfig.baseUrl, systemConfig.model)
       ELSE UserConfigResponse(userConfig.useSystemDefaults, maskApiKey(userConfig.apiKey),
                               userConfig.baseUrl, userConfig.model)

\* Where a save fails, if it does
Faults == {"none", "mkdir", "open", "write", "rename"}

\* A saveUserConfig that writes config.json in place after the temp file
saveUserConfigTwice(fs, config, fault) ==
    LET made == Mkdir(fs)
        inode == OpenedInode(made, {}, tempPath)
        opened == OpenTrunc(made, {}, tempPath)
        written == [opened EXCEPT !.data[inode] = WriteAt(<<>>, 0, JSONstringify(config))]
    IN IF fault = "none"
       THEN [threw |-> FALSE, fs |-> [written EXCEPT !.names[userConfigPath] = inode]]
       ELSE [threw |-> TRUE, fs |-> fs]

\* saveUserConfig(config) run from its call to its return with no other call
\* in between, the file system call named by fault failing; a failing write
\* has written the first token only
saveUserConfig(fs, config, fault) ==
    LET made == Mkdir(fs)
        inode == OpenedInode(made, {}, tempPath)
        opened == OpenTrunc(made, {}, tempPath)
        buffer == JSONstringify(config)
        partly == [opened EXCEPT !.data[inode] = WriteAt(<<>>, 0, SubSeq(buffer, 1, 1))]
        written == [opened EXCEPT !.data[inode] = WriteAt(<<>>, 0, buffer)]
    IN CASE fault = "mkdir" -> [threw |-> TRUE, fs |-> fs]
         [] fault = "open" -> [threw |-> TRUE, fs |-> made]
         [] fault = "write" -> [threw |-> TRUE, fs |-> partly]
         [] fault = "rename" -> [threw |-> TRUE, fs |-> written]
         [] OTHER -> [threw |-> FALSE, fs |-> Sweep(Rename(written, tempPath, userConfigPath), {})]

\* The permission bits after that saveUserConfig(config)
saveUserConfigMode(fs, md, fault) ==
    LET made == MkdirMode(fs, md)
        opened == OpenMode(Mkdir(fs), made, tempPath)
    IN CASE fault = "mkdir" -> md
         [] fault = "open" -> made
         [] fault \in {"write", "rename"} -> opened
         [] OTHER -> RenameMode(opened, tempPath, userConfigPath)

\* The JSON bodies of the error responses
ErrorResponse(message) == [error |-> <<message>>]

\* A validation that does not trim
ApiKeyRequiredUntrimmed(body) ==
    ~body.useSystemDefaults /\ ~Truthy(body.apiKey)

\* The validation of handleSaveConfig (lines 61-65)
ApiKeyRequired(body) ==
    ~body.useSystemDefaults /\ (~Truthy(body.apiKey) \/ Trim(body.apiKey) = EmptyString)

\* handleSaveConfig: the status and apiKey of the response, whether
\* saveUserConfig was called, and the file system afterwards
handleSaveConfig(fs, body, fault) ==
    IF ApiKeyRequired(body)
    THEN [status |-> 400, apiKey |-> Absent, saveInvoked |-> FALSE, fs |-> fs,
          response |-> ErrorResponse("API key is required")]
    ELSE LET userConfig == UserConfig(body.useSystemDefaults, body.apiKey,
                                      body.baseUrl, body.model)
             saved == saveUserConfig(fs, userConfig, fault)
         IN IF saved.threw
            THEN [status |-> 500, apiKey |-> Absent, saveInvoked |-> TRUE, fs |-> saved.fs,
                  response |-> ErrorResponse("Failed to save configuration")]
            ELSE [status |-> 200, apiKey |-> maskApiKey(userConfig.apiKey),
                  saveInvoked |-> TRUE, fs |-> saved.fs,
                  response |->
                      [success |-> TRUE,
                       config |-> UserConfigResponse(userConfig.useSystemDefaults,
                                                     maskApiKey(userConfig.apiKey),
                                                     userConfig.baseUrl, userConfig.model)]]

\* The permission bits after handleSaveConfig answered r
SavedMode(r, fault) ==
    IF r.saveInvoked THEN saveUserConfigMode(FS, mode, fault) ELSE mode

\* The request bodies the model posts
SaveConfigRequests ==
    {UserConfig(u, k, b, Absent) :
        u \in BOOLEAN, k \in {Absent, EmptyString, Blank1, Blank2, LongKey},
        b \in {Absent, CustomUrl}}

\* POST /api/config
PostConfig ==
    \E body \in SaveConfigRequests, fault \in Faults :
        LET r == handleSaveConfig(FS, body, fault)
        IN /\ SetFS(r.fs)
           /\ mode' = SavedMode(r, fault)
           /\ http' = [handler |-> "handleSaveConfig", status |-> r.status, body |-> body,
                       apiKey |-> r.apiKey, saveInvoked |-> r.saveInvoked,
                       response |-> r.response,
                       repeat |-> /\ http.handler = "handleSaveConfig"
                                  /\ http.status = 200
                                  /\ http.body = body
                                  /\ r.status = 200]
           /\ UNCHANGED <<hook, call, systemFile, saver, reader, effective, form, entered>>

InitHandlers ==
    /\ \E fs \in FileSystems({JSONstringify(OldConfig)}) :
          /\ dirExists = fs.dirExists
          /\ names = fs.names
          /\ data = fs.data
    /\ systemFile = TheSystemFile
    /\ Quiet

NextHandlers == PostConfig

SpecHandlers == InitHandlers /\ [][NextHandlers]_vars

-----------------------------------------------------------------------------
(* maskApiKey called by itself *)

\* The longest middle part of a key the model masks
MaxMiddle == 2

\* undefined, and the keys made of nothing or the first seven characters of
\* a key, then up to MaxMiddle characters, then nothing or three characters:
\* every length up to 10 + MaxMiddle but 6
MaskInputs ==
    {Absent} \cup
    {head \o middle \o tail :
        head \in {<<>>, SubSeq(LongKey, 1, 7), SubSeq(SysToken, 1, 7)},
        middle \in UNION {[1..n -> {"a", "b"}] : n \in 0..MaxMiddle},
        tail \in {<<>>, SubSeq(LongKey, 10, 12)}}

MaskApiKey ==
    /\ \E apiKey \in MaskInputs :
          call' = [method |-> "maskApiKey", input |-> apiKey, output |-> maskApiKey(apiKey)]
    /\ UNCHANGED <<hook, dirExists, names, data, mode, systemFile, saver, reader, effective,
                   http, form, entered>>

SpecMask == InitHandlers /\ [][MaskApiKey]_vars

-----------------------------------------------------------------------------
(* The four handlers of /api/config *)

\* A handleGetSystemConfig that answers with the masked credential too
handleGetSystemConfigMasked(file) ==
    LET systemConfig == getSystemConfig(file).value
    IN [hasSystemConfig |-> Truthy(systemConfig.apiKey),
        apiKey |-> maskApiKey(systemConfig.apiKey),
        baseUrl |-> systemConfig.baseUrl,
        model |-> systemConfig.model]

\* handleGetSystemConfig: hasSystemConfig is !!systemConfig.apiKey, and the
\* response has no apiKey member
handleGetSystemConfig(file) ==
    LET systemConfig == getSystemConfig(file).value
    IN [hasSystemConfig |-> Truthy(systemConfig.apiKey),
        baseUrl |-> systemConfig.baseUrl,
        model |-> systemConfig.model]

\* A test that does not trim
testConfigUntrimmed(config) == Truthy(config.apiKey)

\* testConfig
testConfig(config) ==
    IF ~Truthy(config.apiKey) \/ Trim(config.apiKey) = EmptyString THEN FALSE ELSE TRUE

\* handleTestConfig: error is undefined when the configuration is valid
handleTestConfig(body) ==
    LET isValid == testConfig([apiKey |-> body.apiKey, baseUrl |-> body.baseUrl,
                               model |-> body.model])
    IN [success |-> isValid,
        error |-> IF isValid THEN Absent ELSE <<"Invalid API configuration">>]

\* A key with a blank before and after it
PaddedKey == Blank1 \o ShortKey \o Blank1

\* The request bodies the model posts to /api/config/test
TestConfigRequests ==
    {UserConfig(FALSE, k, b, Absent) :
        k \in {Absent, EmptyString, Blank1, Blank2, ShortKey, PaddedKey, LongKey},
        b \in {Absent, CustomUrl}}

\* GET /api/config
GetConfig ==
    LET r == handleGetConfig(FS, systemFile)
    IN /\ http' = [handler |-> "handleGetConfig", status |-> 200, body |-> NoRequest.body,
                   apiKey |-> r.apiKey, saveInvoked |-> FALSE, response |-> r,
                   repeat |-> FALSE]
       /\ UNCHANGED <<hook, dirExists, names, data, mode, call, systemFile, saver, reader,
                      effective, form, entered>>

\* GET /api/config/system
GetSystem ==
    LET r == handleGetSystemConfig(systemFile)
    IN /\ http' = [handler |-> "handleGetSystemConfig", status |-> 200,
                   body |-> NoRequest.body, apiKey |-> Absent, saveInvoked |-> FALSE,
                   response |-> r, repeat |-> FALSE]
       /\ UNCHANGED <<hook, dirExists, names, data, mode, call, systemFile, saver, reader,
                      effective, form, entered>>

\* POST /api/config/test
PostTest ==
    \E body \in TestConfigRequests :
        LET r == handleTestConfig(body)
        IN /\ http' = [handler |-> "handleTestConfig", status |-> 200, body |-> body,
                       apiKey |-> Absent, saveInvoked |-> FALSE, response |-> r,
                       repeat |-> FALSE]
           /\ UNCHANGED <<hook, dirExists, names, data, mode, call, systemFile, saver, reader,
                          effective, form, entered>>

\* A system file whose credential is ANTHROPIC_AUTH_TOKEN
TokenSystemFile ==
    SettingsFile("object", TRUE,
                 [NoEnv EXCEPT !["ANTHROPIC_AUTH_TOKEN"] = SysToken,
                               !["ANTHROPIC_BASE_URL"] = SysUrl])

InitApi ==
    /\ \E fs \in FileSystems({JSONstringify(OldConfig)}) :
          /\ dirExists = fs.dirExists
          /\ names = fs.names
          /\ data = fs.data
    /\ systemFile = TokenSystemFile
    /\ Quiet

NextApi ==
    \/ GetConfig
    \/ PostConfig
    \/ GetSystem
    \/ PostTest

SpecApi == InitApi /\ [][NextApi]_vars

\* The three handlers that save nothing, for every system file
InitQuery ==
    /\ \E fs \in WithOrphan(FileSystems({JSONstringify(OldConfig),
                                          JSONstringify(UserConfig(TRUE, Absent, Absent, Absent))})) :
          /\ dirExists = fs.dirExists
          /\ names = fs.names
          /\ data = fs.data
    /\ systemFile \in SystemFiles
    /\ Quiet

NextQuery ==
    \/ GetConfig
    \/ GetSystem
    \/ PostTest

SpecQuery == InitQuery /\ [][NextQuery]_vars

-----------------------------------------------------------------------------
(* useConversationList *)

\* The most fetches the model starts
MaxFetches == 3

\* data.conversations of the response for a project
ListOf(name) == IF name = "p1" THEN <<"c1">> ELSE <<"c2", "c3">>

\* The component renders with another encodedName and the effect runs: for
\* null it empties conversations and returns, for a name it sets loading,
\* clears error and starts a fetch.  Nothing is done about the fetches that
\* are in flight.
SetEncodedName ==
    /\ \E name \in ProjectNames \cup {"null"} :
          /\ name # hook.encodedName
          /\ IF name = "null"
             THEN hook' = [hook EXCEPT !.encodedName = name, !.conversations = <<>>]
             ELSE /\ hook.started < MaxFetches
                  /\ hook' = [hook EXCEPT !.encodedName = name, !.loading = TRUE,
                                          !.error = "null",
                                          !.inflight[name] = @ + 1,
                                          !.started = @ + 1]
    /\ UNCHANGED <<dirExists, names, data, mode, call, systemFile, saver, reader,
                   effective, http, form, entered>>

\* A fetch is answered with ok: setConversations(data.conversations), and
\* setLoading(false) in the finally block
FetchResolves ==
    /\ \E name \in ProjectNames :
          /\ hook.inflight[name] > 0
          /\ hook' = [hook EXCEPT !.conversations = ListOf(name), !.loading = FALSE,
                                  !.inflight[name] = @ - 1]
    /\ UNCHANGED <<dirExists, names, data, mode, call, systemFile, saver, reader,
                   effective, http, form, entered>>

\* A fetch is rejected or answered without ok: setError, and
\* setLoading(false) in the finally block
FetchFails ==
    /\ \E name \in ProjectNames :
          /\ hook.inflight[name] > 0
          /\ hook' = [hook EXCEPT !.error = "Failed to load conversations",
                                  !.loading = FALSE,
                                  !.inflight[name] = @ - 1,
                                  !.failed = TRUE]
    /\ UNCHANGED <<dirExists, names, data, mode, call, systemFile, saver, reader,
                   effective, http, form, entered>>

NextList ==
    \/ SetEncodedName
    \/ FetchResolves
    \/ FetchFails

SpecList == InitHandlers /\ [][NextList]_vars

-----------------------------------------------------------------------------
(* Changes of the two files from outside *)

\* config.json is written or removed by something else: an editor, a shell
EditUserConfig ==
    /\ dirExists
    /\ \/ \E content \in {JSONstringify(OldConfig),
                           JSONstringify(UserConfig(TRUE, OldKey, Absent, Absent))} :
             LET inode == OpenedInode(FS, OpenFiles, userConfigPath)
                 opened == OpenTrunc(FS, OpenFiles, userConfigPath)
             IN /\ Content(FS, userConfigPath) # content \/ ~Exists(FS, userConfigPath)
                /\ SetFS([opened EXCEPT !.data[inode] = content])
                /\ mode' = [mode EXCEPT !.file[userConfigPath] = IF @ = 0 THEN 420 ELSE @]
       \/ /\ Exists(FS, userConfigPath)
          /\ SetFS(Sweep([FS EXCEPT !.names[userConfigPath] = 0], OpenFiles))
          /\ mode' = [mode EXCEPT !.file[userConfigPath] = 0]
    /\ UNCHANGED <<hook, call, systemFile, saver, reader, effective, http, form, entered>>

\* ~/.claude/settings.json is written or removed by something else
EditSystemFile ==
    /\ \E file \in {TheSystemFile, TokenSystemFile, SettingsFile("missing", FALSE, NoEnv)} :
          /\ file # systemFile
          /\ systemFile' = file
    /\ UNCHANGED <<hook, dirExists, names, data, mode, call, saver, reader, effective, http,
                   form, entered>>

\* One save, changes of the two files from outside, and getEffectiveConfig
\* between them
NextEdits ==
    \/ \E config \in SaveConfigs : SaveBegin("A", config)
    \/ EnsureConfigDir("A")
    \/ OpenTemp("A")
    \/ WriteTemp("A")
    \/ RenameTemp("A")
    \/ EditUserConfig
    \/ EditSystemFile
    \/ GetEffectiveConfig

SpecEdits == InitHandlers /\ [][NextEdits]_vars

-----------------------------------------------------------------------------
(* The settings form.  useApiConfig gives ApiSettings the response of      *)
(* GET /api/config as config and posts what saveConfig is given to         *)
(* POST /api/config.                                                       *)

\* config || ""
OrEmpty(v) == Or(v, EmptyString)

\* useApiConfig: config is the response of GET /api/config
useApiConfig_config == handleGetConfig(FS, systemFile)

\* useApiConfig: saveConfig posts its argument to POST /api/config
useApiConfig_saveConfig(body, fault) == handleSaveConfig(FS, body, fault)

\* useApiConfig loads config, and the effect of ApiSettings (lines 21-28)
\* copies it into the form
FetchConfig ==
    /\ LET config == useApiConfig_config
       IN form' = [form EXCEPT !.useSystemDefaults = config.useSystemDefaults,
                               !.apiKey = OrEmpty(config.apiKey),
                               !.baseUrl = OrEmpty(config.baseUrl),
                               !.model = OrEmpty(config.model)]
    /\ UNCHANGED <<hook, mode, call, dirExists, names, data, systemFile, saver, reader, effective, http, entered>>

\* The checkbox (line 115)
ToggleUseSystemDefaults ==
    /\ form' = [form EXCEPT !.useSystemDefaults = ~form.useSystemDefaults]
    /\ UNCHANGED <<hook, mode, call, dirExists, names, data, systemFile, saver, reader, effective, http, entered>>

\* What the model lets the user type
TypedKeys == {ShortKey, LongKey}

\* The API key input, shown when useSystemDefaults is off (lines 154-172)
TypeApiKey ==
    /\ ~form.useSystemDefaults
    /\ \E k \in TypedKeys :
          /\ form' = [form EXCEPT !.apiKey = k]
          /\ entered' = entered \cup {k}
    /\ UNCHANGED <<hook, mode, call, dirExists, names, data, systemFile, saver, reader, effective, http>>

\* The base URL input (line 199)
TypeBaseUrl ==
    /\ ~form.useSystemDefaults
    /\ form' = [form EXCEPT !.baseUrl = CustomUrl]
    /\ UNCHANGED <<hook, mode, call, dirExists, names, data, systemFile, saver, reader, effective, http, entered>>

\* The model input (line 217)
TypeModel ==
    /\ ~form.useSystemDefaults
    /\ form' = [form EXCEPT !.model = CustomModel]
    /\ UNCHANGED <<hook, mode, call, dirExists, names, data, systemFile, saver, reader, effective, http, entered>>

\* The body handleSave gives saveConfig (lines 34-39)
SaveConfigBody ==
    UserConfig(form.useSystemDefaults,
               IF form.useSystemDefaults THEN Absent ELSE form.apiKey,
               IF form.useSystemDefaults THEN Absent ELSE form.baseUrl,
               IF form.useSystemDefaults THEN Absent ELSE form.model)

\* handleSave: the request, handleSaveConfig's answer, the message shown
ClickSave ==
    /\ \E fault \in {"none", "rename"} :
          LET r == useApiConfig_saveConfig(SaveConfigBody, fault)
          IN /\ SetFS(r.fs)
             /\ mode' = SavedMode(r, fault)
             /\ form' = [form EXCEPT !.testResult =
                            IF r.status = 200 THEN "saved" ELSE "failed"]
    /\ UNCHANGED <<hook, call, systemFile, saver, reader, effective, http, entered>>

InitUI ==
    /\ \E fs \in FileSystems({}) :
          /\ dirExists = fs.dirExists
          /\ names = fs.names
          /\ data = fs.data
    /\ systemFile \in {TheSystemFile, SettingsFile("missing", FALSE, NoEnv)}
    /\ Quiet

NextUI ==
    \/ FetchConfig
    \/ ToggleUseSystemDefaults
    \/ TypeApiKey
    \/ TypeBaseUrl
    \/ TypeModel
    \/ ClickSave

SpecUI == InitUI /\ [][NextUI]_vars

-----------------------------------------------------------------------------
(* Claims about resolution, each about the last getEffectiveConfig call *)

\* What the call's two reads returned
CallUser == getUserConfigOf(effective.exists, effective.content).value
CallSystem == getSystemConfig(effective.file).value

\* Blank as the validation of handleSaveConfig has it (config.ts line 62)
Blank(apiKey) == apiKey = Absent \/ apiKey = EmptyString \/ Trim(apiKey) = EmptyString

\* C1: when the user config is absent or has useSystemDefaults true, the
\* result is the system's apiKey or "", the system's baseUrl or the default,
\* the system's model or the default; and with useSystemDefaults true no
\* apiKey, baseUrl or model stored in the user config changes the result.
C1_SystemDefaultsRule ==
    (effective.called /\ (CallUser.isNull \/ CallUser.useSystemDefaults)) =>
        /\ ~effective.result.threw
        /\ effective.result.apiKey =
              (IF Truthy(CallSystem.apiKey) THEN CallSystem.apiKey ELSE EmptyString)
        /\ effective.result.baseUrl =
              (IF Truthy(CallSystem.baseUrl) THEN CallSystem.baseUrl
               ELSE <<"https://api.anthropic.com">>)
        /\ effective.result.model =
              (IF Truthy(CallSystem.model) THEN CallSystem.model
               ELSE <<"claude-sonnet-4-20250514">>)
        /\ ~CallUser.isNull =>
              \A c \in UserConfigs :
                  c.useSystemDefaults =>
                      getEffectiveConfigOf(TRUE, JSONstringify(c), effective.file)
                          = effective.result

\* A call that found useSystemDefaults true beside a user apiKey, baseUrl and
\* model, and returned the system's credential instead
C1_Witness ==
    /\ effective.called
    /\ ~CallUser.isNull
    /\ CallUser.useSystemDefaults
    /\ CallUser.apiKey = LongKey
    /\ CallUser.baseUrl = CustomUrl
    /\ CallUser.model = CustomModel
    /\ effective.result.apiKey = SysToken
    /\ effective.result.baseUrl = SysUrl

\* C2: with useSystemDefaults false, a blank user apiKey (absent, empty or
\* whitespace-only) resolves to the system's apiKey, or "" when there is
\* none; a non-blank user apiKey is returned unchanged.
C2_BlankKeyFallsBack ==
    (effective.called /\ ~CallUser.isNull /\ ~CallUser.useSystemDefaults) =>
        IF Blank(CallUser.apiKey)
        THEN effective.result.apiKey =
                (IF Truthy(CallSystem.apiKey) THEN CallSystem.apiKey ELSE EmptyString)
        ELSE effective.result.apiKey = CallUser.apiKey

\* C3: with useSystemDefaults false, baseUrl and model are the user's own
\* value or the built-in default, and no other system settings file would
\* have given another baseUrl or model.
C3_SystemUrlNotConsulted ==
    (effective.called /\ ~CallUser.isNull /\ ~CallUser.useSystemDefaults) =>
        /\ effective.result.baseUrl \in {CallUser.baseUrl, <<"https://api.anthropic.com">>}
        /\ effective.result.model \in {CallUser.model, <<"claude-sonnet-4-20250514">>}
        /\ \A f \in SystemFiles :
              LET other == getEffectiveConfigOf(effective.exists, effective.content, f)
              IN /\ other.baseUrl = effective.result.baseUrl
                 /\ other.model = effective.result.model

\* A call with a custom config without baseUrl and model, beside a system
\* file that has both
C3_Witness ==
    /\ effective.called
    /\ ~CallUser.isNull
    /\ ~CallUser.useSystemDefaults
    /\ ~Truthy(CallUser.baseUrl)
    /\ ~Truthy(CallUser.model)
    /\ CallSystem.baseUrl = SysUrl
    /\ CallSystem.model = SysModel
    /\ effective.result.baseUrl = DEFAULT_CONFIG.baseUrl
    /\ effective.result.model = DEFAULT_CONFIG.model

\* C4: whatever the two files hold, getEffectiveConfig does not raise, and
\* returns an apiKey, a baseUrl and a model of which only the apiKey may be "".
C4_AlwaysResolves ==
    effective.called =>
        /\ ~effective.result.threw
        /\ effective.result.apiKey # Absent
        /\ Truthy(effective.result.baseUrl)
        /\ Truthy(effective.result.model)

\* A call that found both files unparsable
C4_Witness ==
    /\ effective.called
    /\ effective.exists
    /\ JSONparse(effective.content).threw
    /\ effective.file.kind = "malformed"
    /\ effective.result.apiKey = EmptyString
    /\ effective.result.baseUrl = DEFAULT_CONFIG.baseUrl

-----------------------------------------------------------------------------
(* Claims about saveUserConfig and a concurrent getUserConfig *)

\* The canonical file is as call p found it when it started
AsBefore(p) ==
    /\ Exists(FS, userConfigPath) = saver[p].beforeExists
    /\ Content(FS, userConfigPath) = saver[p].before

\* The canonical file holds the whole serialised config of call p
HoldsConfigOf(p) ==
    /\ Exists(FS, userConfigPath)
    /\ Content(FS, userConfigPath) = JSONstringify(saver[p].config)

\* C5: a getUserConfig that runs beside one saveUserConfig reads the
\* canonical file as it was before the save (or finds none, when there was
\* none) or as the save leaves it, and never anything else.
C5_ReadSeesOldOrNew ==
    reader.pc = "done" =>
        LET started == saver["A"].pc # "idle"
            oldExists == IF started THEN saver["A"].beforeExists
                         ELSE Exists(FS, userConfigPath)
            old == IF started THEN saver["A"].before ELSE Content(FS, userConfigPath)
        IN \/ ~reader.exists /\ ~oldExists
           \/ reader.exists /\ oldExists /\ reader.buf = old
           \/ reader.exists /\ started /\ reader.buf = JSONstringify(saver["A"].config)

\* A read that opened the file while the save was writing its temp file,
\* returned after the rename, and read the whole old content
C5_Witness ==
    /\ reader.pc = "done"
    /\ reader.openedAt["A"] = "write"
    /\ reader.endedAt["A"] = "done"
    /\ saver["A"].beforeExists
    /\ reader.buf = saver["A"].before
    /\ reader.buf = JSONstringify(OldConfig)
    /\ HoldsConfigOf("A")

\* C6: when two saves of different configs run concurrently, the canonical
\* file afterwards holds the whole serialised config of one of the two, and a
\* concurrent read sees the old content or one of the two configs, whole.
C6_LastRenameWins ==
    /\ (\A p \in Savers : saver[p].pc \in {"done", "failed"}) =>
          \E p \in Savers : HoldsConfigOf(p)
    /\ (reader.pc = "done" /\ reader.exists) =>
          \/ reader.buf = JSONstringify(OldConfig)
          \/ \E p \in Savers :
                saver[p].pc # "idle" /\ reader.buf = JSONstringify(saver[p].config)

\* C7: after a crash at any point of a save before its rename completed, the
\* canonical file is absent if it was absent, and holds its content of
\* before the save otherwise.
C7_CrashKeepsCanonical ==
    saver["A"].pc = "crashed" => AsBefore("A")

\* A crash in the middle of the temp file write, with a canonical file there
C7_Witness ==
    /\ saver["A"].pc = "crashed"
    /\ saver["A"].off > 0
    /\ saver["A"].off < Len(JSONstringify(saver["A"].config))
    /\ saver["A"].beforeExists
    /\ Content(FS, userConfigPath) = JSONstringify(OldConfig)
    /\ Exists(FS, tempPath)
    /\ Len(Content(FS, tempPath)) = saver["A"].off

\* C8: a save that fails leaves the canonical file as it was; a save that
\* resolves leaves it holding exactly the serialised new config.
C8_AllOrNothing ==
    /\ saver["A"].pc = "failed" => AsBefore("A")
    /\ saver["A"].pc = "done" => HoldsConfigOf("A")

\* A save whose rename failed: the temp file holds the whole new config, the
\* canonical file the old one
C8_Witness ==
    /\ saver["A"].pc = "failed"
    /\ saver["A"].off = Len(JSONstringify(saver["A"].config))
    /\ Content(FS, tempPath) = JSONstringify(saver["A"].config)
    /\ saver["A"].beforeExists
    /\ Content(FS, userConfigPath) = JSONstringify(OldConfig)
    /\ saver["A"].config # OldConfig

-----------------------------------------------------------------------------
(* Claims about the handlers *)

AllSpaces(apiKey) == \A i \in 1..Len(apiKey) : apiKey[i] = " "

\* C9: handleSaveConfig answers 400 exactly when useSystemDefaults is false
\* and the apiKey is absent, empty or whitespace-only, and calls
\* saveUserConfig for every other request; a request it rejects leaves the
\* config directory, the temp file and the canonical file as they were.
C9_RejectsExactlyBlankKey ==
    /\ [](http.status # 0 =>
             /\ http.status = 400 <=>
                   (~http.body.useSystemDefaults
                    /\ (http.body.apiKey = Absent \/ AllSpaces(http.body.apiKey)))
             /\ http.saveInvoked <=> http.status # 400)
    /\ [][http'.status = 400 => UNCHANGED <<mode, call, dirExists, names, data>>]_vars

\* A whitespace-only apiKey rejected, the canonical file still the old one
C9_Witness ==
    /\ http.status = 400
    /\ http.body.apiKey = Blank2
    /\ ~http.saveInvoked
    /\ Content(FS, userConfigPath) = JSONstringify(OldConfig)
    /\ ~Exists(FS, tempPath)

-----------------------------------------------------------------------------
(* C11 *)

\* The credential config.json holds, absent if it holds no config
StoredUser ==
    getUserConfigOf(Exists(FS, userConfigPath), Content(FS, userConfigPath)).value

UserCredential == IF StoredUser.isNull THEN Absent ELSE StoredUser.apiKey

\* The credential ~/.claude/settings.json yields
SystemCredential == getSystemConfig(systemFile).value.apiKey

\* The credential handleGetConfig answers for
ShownCredential == IF StoredUser.isNull THEN SystemCredential ELSE UserCredential

\* The string members of a response body
ResponseValues(r) ==
    IF "config" \in DOMAIN r
    THEN {r.config.apiKey, r.config.baseUrl, r.config.model}
    ELSE {r[f] : f \in DOMAIN r \cap {"apiKey", "baseUrl", "model", "error"}}

\* The credentials whose mask differs from them
Credentials ==
    {c \in {UserCredential, SystemCredential, http.body.apiKey} :
        Truthy(c) /\ maskApiKey(c) # c}

-----------------------------------------------------------------------------
(* C12 *)

CredentialKeys == {"ANTHROPIC_AUTH_TOKEN", "ANTHROPIC_API_KEY"}

\* The file has an env object with a non-empty credential in it
YieldsCredential(file) ==
    /\ file.kind = "object"
    /\ file.hasEnv
    /\ \E k \in CredentialKeys : file.env[k] \notin {Absent, EmptyString}

\* Two files with a credential each that are the same in all the rest
SameButCredential(f, g) ==
    /\ YieldsCredential(f)
    /\ YieldsCredential(g)
    /\ \A k \in EnvKeys \ CredentialKeys : f.env[k] = g.env[k]

\* C12: hasSystemConfig of a response of handleGetSystemConfig is true
\* exactly if the system file yields a credential; the response has no apiKey
\* member, none of its members is the credential or its mask, and it is the
\* response for every system file that differs in its credential only
C12_SystemResponseHidesCredential ==
    http.handler = "handleGetSystemConfig" =>
        /\ http.response.hasSystemConfig <=> YieldsCredential(systemFile)
        /\ DOMAIN http.response = {"hasSystemConfig", "baseUrl", "model"}
        /\ YieldsCredential(systemFile) =>
               /\ SystemCredential \notin {http.response.baseUrl, http.response.model}
               /\ maskApiKey(SystemCredential) \notin {http.response.baseUrl, http.response.model}
        /\ \A g \in SystemFiles :
               SameButCredential(systemFile, g) => handleGetSystemConfig(g) = http.response

\* handleGetSystemConfig has answered for a file with a credential, and
\* there is a file with another credential and the same rest
C12_Witness ==
    /\ http.handler = "handleGetSystemConfig"
    /\ http.response.hasSystemConfig
    /\ \E g \in SystemFiles :
          /\ SameButCredential(systemFile, g)
          /\ getSystemConfig(g).value.apiKey # SystemCredential
          /\ maskApiKey(getSystemConfig(g).value.apiKey) # maskApiKey(SystemCredential)

-----------------------------------------------------------------------------
(* C13 *)

\* The mask of a key of more than 10 characters: its first seven characters,
\* three dots, its last three characters
ShowsEnds(apiKey, masked) ==
    /\ Len(masked) = 13
    /\ \A i \in 1..7 : masked[i] = apiKey[i]
    /\ \A i \in 8..10 : masked[i] = "."
    /\ \A i \in 1..3 : masked[10 + i] = apiKey[Len(apiKey) - 3 + i]

\* C13 as it is stated: maskApiKey returns undefined for undefined, three
\* stars for every string of at most 10 characters, and the two ends around
\* three dots for a longer one
C13_MaskShape ==
    call.method = "maskApiKey" =>
        /\ call.input = Absent => call.output = Absent
        /\ call.input # Absent /\ Len(call.input) <= 10 => call.output = <<"*", "*", "*">>
        /\ call.input # Absent /\ Len(call.input) > 10 => ShowsEnds(call.input, call.output)

\* C13, amended: maskApiKey returns undefined for undefined and for the
\* empty string, three stars for every string of 1 to 10 characters, and the
\* two ends around three dots for a longer one
C13_MaskShapeOfNonEmpty ==
    call.method = "maskApiKey" =>
        /\ call.input \in {Absent, EmptyString} => call.output = Absent
        /\ call.input # Absent /\ Len(call.input) \in 1..10 => call.output = <<"*", "*", "*">>
        /\ call.input # Absent /\ Len(call.input) > 10 => ShowsEnds(call.input, call.output)

\* maskApiKey has masked a key of 10 characters
C13_Witness ==
    /\ call.method = "maskApiKey"
    /\ call.input # Absent
    /\ Len(call.input) = 10
    /\ call.output = <<"*", "*", "*">>

-----------------------------------------------------------------------------
(* C14 *)

\* undefined, the empty string, and the strings that differ from apiKey in
\* one character
Others(apiKey) ==
    ({Absent, EmptyString} \cup
     (IF apiKey = Absent THEN {}
      ELSE {[apiKey EXCEPT ![i] = c] : i \in 1..Len(apiKey), c \in {"a", "b"}}))
    \ {apiKey}

\* C14: for every input of maskApiKey another input has the same output;
\* a key of more than 10 characters has a character that no output depends on
C14_MaskNotInvertible ==
    call.method = "maskApiKey" =>
        /\ \E other \in Others(call.input) : maskApiKey(other) = call.output
        /\ call.input # Absent /\ Len(call.input) > 10 =>
               \E i \in 1..Len(call.input) :
                   \A c \in {"a", "b"} :
                       maskApiKey([call.input EXCEPT ![i] = c]) = call.output

\* maskApiKey has masked a key of 11 characters, which hides one
C14_Witness ==
    /\ call.method = "maskApiKey"
    /\ call.input # Absent
    /\ Len(call.input) = 11
    /\ call.output # <<"*", "*", "*">>

-----------------------------------------------------------------------------
(* C15 *)

\* C15: getUserConfig does not throw; it returns null for no file, for a
\* file it cannot read and for one that is not JSON, and a config only for a
\* file it read and parsed; the call leaves the file, the temp file and the
\* directory as they were
C15_GetUserConfigNeverRaises ==
    /\ [](call.method = "getUserConfig" =>
             /\ ~call.output.threw
             /\ ~call.input.exists => call.output.value.isNull
             /\ ~call.input.readable => call.output.value.isNull
             /\ ~WellFormed(call.input.content) => call.output.value.isNull
             /\ ~call.output.value.isNull =>
                    /\ call.input.exists
                    /\ call.input.readable
                    /\ WellFormed(call.input.content))
    /\ [][call'.method = "getUserConfig" =>
             UNCHANGED <<dirExists, names, data, mode>>]_vars

\* getUserConfig has returned null for a file that is not JSON, one it could
\* read
C15_Witness ==
    /\ call.method = "getUserConfig"
    /\ call.input.exists
    /\ call.input.readable
    /\ ~WellFormed(call.input.content)
    /\ call.output.value.isNull
    /\ ~call.output.threw

-----------------------------------------------------------------------------
(* C16 *)

\* C16: getSystemConfig does not throw; for a missing file, one that is not
\* JSON, the document null and an object without env every field of what it
\* returns is undefined, and so is each field none of whose keys env has
C16_GetSystemConfigNeverRaises ==
    call.method = "getSystemConfig" =>
        LET file == call.input
            value == call.output.value
            Missing(k) == file.env[k] = Absent
        IN /\ ~call.output.threw
           /\ file.kind # "object" \/ ~file.hasEnv =>
                  /\ value.apiKey = Absent
                  /\ value.baseUrl = Absent
                  /\ value.model = Absent
           /\ Missing("ANTHROPIC_AUTH_TOKEN") /\ Missing("ANTHROPIC_API_KEY") =>
                  value.apiKey = Absent
           /\ Missing("ANTHROPIC_BASE_URL") => value.baseUrl = Absent
           /\ Missing("ANTHROPIC_MODEL") /\ Missing("ANTHROPIC_DEFAULT_SONNET_MODEL") =>
                  value.model = Absent

\* getSystemConfig has returned for the document null, whose env it cannot
\* read
C16_Witness ==
    /\ call.method = "getSystemConfig"
    /\ call.input.kind = "null"
    /\ ~call.output.threw
    /\ call.output.value = [apiKey |-> Absent, baseUrl |-> Absent, model |-> Absent]

-----------------------------------------------------------------------------
(* C17 *)

\* A string with a character that is no blank
NonBlank(apiKey) == apiKey # Absent /\ \E i \in 1..Len(apiKey) : apiKey[i] # " "

\* C17: handleTestConfig answers success exactly for an apiKey that has a
\* character other than blanks, with an error exactly if success is false,
\* and the step leaves config.json, the temp file, the directory and the
\* system file as they were
C17_TestIsStructural ==
    /\ [](http.handler = "handleTestConfig" =>
             /\ http.response.success <=> NonBlank(http.body.apiKey)
             /\ http.response.error # Absent <=> ~http.response.success)
    /\ [][http'.handler = "handleTestConfig" =>
             UNCHANGED <<dirExists, names, data, mode, systemFile>>]_vars

\* handleTestConfig has refused a key of two blanks and left a temp file
\* where it was
C17_Witness ==
    /\ http.handler = "handleTestConfig"
    /\ http.body.apiKey = Blank2
    /\ ~http.response.success
    /\ http.response.error = <<"Invalid API configuration">>
    /\ Exists(FS, tempPath)

-----------------------------------------------------------------------------
(* C18 *)

\* C18: when saveUserConfig has returned, config.json has mode 0600 and the
\* directory has mode 0700
C18_OwnerOnlyAfterSave ==
    saver["A"].pc = "done" =>
        /\ mode.file[userConfigPath] = Mode0600
        /\ mode.dir = Mode0700

-----------------------------------------------------------------------------
(* C19 *)

\* C19: no step of a handler changes the system file; none removes the
\* directory or changes the mode of one that exists; a step of a handler
\* other than handleSaveConfig changes no file; and after a successful
\* handleSaveConfig config.json holds the saved config and there is no temp
\* file
C19_Frame ==
    [][/\ systemFile' = systemFile
       /\ dirExists => dirExists' /\ mode'.dir = mode.dir
       /\ http'.handler # "handleSaveConfig" => UNCHANGED <<dirExists, names, data, mode>>
       /\ http'.handler = "handleSaveConfig" /\ http'.status = 200 =>
              /\ dirExists'
              /\ names'[tempPath] = 0
              /\ names'[userConfigPath] # 0
              /\ data'[names'[userConfigPath]] = JSONstringify(http'.body)]_vars

\* handleSaveConfig has saved a key: config.json holds it, there is no temp
\* file, and the system file is the one there was
C19_Witness ==
    /\ http.handler = "handleSaveConfig"
    /\ http.status = 200
    /\ http.body.apiKey = LongKey
    /\ ~http.repeat
    /\ Content(FS, userConfigPath) = JSONstringify(http.body)
    /\ ~Exists(FS, tempPath)
    /\ systemFile = TokenSystemFile

-----------------------------------------------------------------------------
(* C20 *)

\* C20: the second of two successful saves of one config, one after the
\* other, leaves config.json with the content it had and no temp file
C20_SaveIdempotent ==
    [][http'.repeat =>
          /\ names'[userConfigPath] # 0
          /\ names[userConfigPath] # 0
          /\ data'[names'[userConfigPath]] = data[names[userConfigPath]]
          /\ names'[tempPath] = 0]_vars

\* The same config has been saved twice
C20_Witness ==
    /\ http.repeat
    /\ http.body.apiKey = LongKey
    /\ Content(FS, userConfigPath) = JSONstringify(http.body)
    /\ ~Exists(FS, tempPath)

-----------------------------------------------------------------------------
(* C22 *)

\* The file with one more key in env and one more key beside env
WithOtherKeys(file) ==
    [k \in DOMAIN file \cup {"apiKey"} |->
        IF k = "apiKey" THEN SysKey
        ELSE IF k = "env"
             THEN [e \in EnvKeys \cup {"ANTHROPIC_SMALL_FAST_MODEL"} |->
                      IF e \in EnvKeys THEN file.env[e] ELSE SysModel]
        ELSE file[k]]

\* C22: for a settings file that is an object with an env object, apiKey is
\* ANTHROPIC_AUTH_TOKEN if that is a non-empty string and ANTHROPIC_API_KEY
\* if not, model is ANTHROPIC_MODEL if that is a non-empty string and
\* ANTHROPIC_DEFAULT_SONNET_MODEL if not, baseUrl is ANTHROPIC_BASE_URL; and
\* the result is the same for the file with other keys added to it
C22_KeyPrecedence ==
    call.method = "getSystemConfig" =>
        LET file == call.input
            value == call.output.value
            NonEmpty(v) == v \notin {Absent, EmptyString}
        IN /\ file.kind = "object" /\ file.hasEnv =>
                  /\ value.apiKey =
                        (IF NonEmpty(file.env["ANTHROPIC_AUTH_TOKEN"])
                         THEN file.env["ANTHROPIC_AUTH_TOKEN"]
                         ELSE file.env["ANTHROPIC_API_KEY"])
                  /\ value.model =
                        (IF NonEmpty(file.env["ANTHROPIC_MODEL"])
                         THEN file.env["ANTHROPIC_MODEL"]
                         ELSE file.env["ANTHROPIC_DEFAULT_SONNET_MODEL"])
                  /\ value.baseUrl = file.env["ANTHROPIC_BASE_URL"]
           /\ getSystemConfig(WithOtherKeys(file)) = call.output

\* getSystemConfig has returned for a file with both credential keys and
\* both model keys
C22_Witness ==
    /\ call.method = "getSystemConfig"
    /\ call.input.kind = "object"
    /\ call.input.hasEnv
    /\ call.input.env["ANTHROPIC_AUTH_TOKEN"] = SysToken
    /\ call.input.env["ANTHROPIC_API_KEY"] = SysKey
    /\ call.input.env["ANTHROPIC_MODEL"] = SysModel
    /\ call.input.env["ANTHROPIC_DEFAULT_SONNET_MODEL"] = SysSonnet
    /\ call.output.value.apiKey = SysToken
    /\ call.output.value.model = SysModel

-----------------------------------------------------------------------------
(* C23 *)

\* v if it is a non-empty string, and if not, otherwise
OrElse(v, otherwise) == IF v \notin {Absent, EmptyString} THEN v ELSE otherwise

\* C23: a getUserConfig that starts after saveUserConfig(c) has returned
\* gives c back, field by field, undefined where c has undefined, and
\* getEffectiveConfig on what it read gives the system's values for a c with
\* useSystemDefaults and c's own for another; when the save has returned,
\* config.json holds c and no temp file is left, whether or not there was
\* one; and getUserConfig never has the temp file open
C23_RoundTrip ==
    /\ reader.pc = "done" /\ reader.openedAt["A"] = "done" =>
           LET c == saver["A"].config
               sys == getSystemConfig(systemFile).value
               eff == getEffectiveConfigOf(reader.exists, reader.buf, systemFile)
           IN /\ reader.exists
              /\ ~reader.result.isNull
              /\ reader.result.useSystemDefaults = c.useSystemDefaults
              /\ reader.result.apiKey = c.apiKey
              /\ reader.result.baseUrl = c.baseUrl
              /\ reader.result.model = c.model
              /\ ~eff.threw
              /\ eff.apiKey = (IF c.useSystemDefaults THEN OrElse(sys.apiKey, EmptyString)
                               ELSE OrElse(c.apiKey, OrElse(sys.apiKey, EmptyString)))
              /\ eff.baseUrl = (IF c.useSystemDefaults
                                THEN OrElse(sys.baseUrl, <<"https://api.anthropic.com">>)
                                ELSE OrElse(c.baseUrl, <<"https://api.anthropic.com">>))
              /\ eff.model = (IF c.useSystemDefaults
                              THEN OrElse(sys.model, <<"claude-sonnet-4-20250514">>)
                              ELSE OrElse(c.model, <<"claude-sonnet-4-20250514">>))
    /\ saver["A"].pc = "done" =>
           /\ names[userConfigPath] # 0
           /\ data[names[userConfigPath]] = JSONstringify(saver["A"].config)
           /\ names[tempPath] = 0
    /\ reader.pc = "read" /\ names[tempPath] # 0 => reader.fd # names[tempPath]

\* A save into a directory with no config.json and an orphaned temp file
\* (whose inode, the second, config.json now has) has returned, and a
\* getUserConfig that started afterwards has returned its config, two of
\* whose fields are undefined
C23_Witness ==
    /\ saver["A"].pc = "done"
    /\ ~saver["A"].beforeExists
    /\ names[userConfigPath] = 2
    /\ reader.pc = "done"
    /\ reader.openedAt["A"] = "done"
    /\ saver["A"].config = UserConfig(FALSE, ShortKey, Absent, Absent)
    /\ reader.result = saver["A"].config

-----------------------------------------------------------------------------
(* C21 *)

\* C21: every getEffectiveConfig reads the two files as they are when it is
\* called and returns the precedence result for them, whatever a save or a
\* change from outside has done to either file before, and whatever an
\* earlier call returned
C21_NeverCached ==
    [][effective' # effective =>
          /\ effective'.called
          /\ effective'.exists = (names[userConfigPath] # 0)
          /\ effective'.exists => effective'.content = data[names[userConfigPath]]
          /\ effective'.file = systemFile
          /\ effective'.result =
                 getEffectiveConfigOf(names[userConfigPath] # 0,
                                      Content(FS, userConfigPath), systemFile)]_vars

\* After a save of a config with useSystemDefaults and a change of the
\* system file to one with a token, getEffectiveConfig has returned the token
C21_Witness ==
    /\ effective.called
    /\ saver["A"].pc = "done"
    /\ effective.content = JSONstringify(UserConfig(TRUE, Absent, Absent, Absent))
    /\ effective.file = TokenSystemFile
    /\ effective.result.apiKey = SysToken
    /\ effective.result.baseUrl = SysUrl

-----------------------------------------------------------------------------
(* C24 *)

\* C24: when no fetch is in flight and none has failed, conversations is the
\* list of the current encodedName, or empty for null; and loading is true
\* while a fetch is in flight
C24_LatestListWins ==
    LET settled == \A n \in ProjectNames : hook.inflight[n] = 0
    IN /\ settled /\ ~hook.failed =>
              hook.conversations =
                  (IF hook.encodedName = "null" THEN <<>> ELSE ListOf(hook.encodedName))
       /\ ~settled => hook.loading

====
